---- MODULE Spec2Model ----
(***************************************************************************)
(* BorlaCam: the post-detection decision pipeline.                         *)
(*                                                                         *)
(*   simple_flask_api.predict            /api/predict of the development   *)
(*                                       server: acceptance, geometric     *)
(*                                       checks, re-scoring, per-class     *)
(*                                       de-duplication, final floor       *)
(*   production_api.BorlaCamAPI.predict  acceptance, ordering, cap         *)
(*   deploy_precision_model              class-specific thresholds and     *)
(*     .PrecisionWasteDetector           statistics                        *)
(*   borlacam.BorlaCam                   live loop: process_detections,    *)
(*                                       announce_detection, key presses   *)
(*                                                                         *)
(* Numbers.  Confidences and scores are Python floats.  They are modelled  *)
(* as exact decimals: an integer s stands for s / One.  Detector           *)
(* confidences are multiples of 0.01, and every product the code forms     *)
(* (x1.1, x1.15, x1.12, x1.08, x1.10, x1.05, x1.1) is then an integer.     *)
(* Pixel coordinates are integers; ratios the code compares with a         *)
(* constant (relative area, aspect ratio, centre factor) are compared by   *)
(* cross-multiplication.  Times are tenths of a second.                    *)
(***************************************************************************)
EXTENDS Integers, Sequences, FiniteSets, TLC

VARIABLES
    program,            \* which entry point of the repository is running
    flask_req,          \* simple_flask_api: the request being served
    flask_pc,           \* simple_flask_api: "received" or "answered"
    flask_resp,         \* simple_flask_api: the response
    flask_log,          \* simple_flask_api: the stages the handler prints
    flask_model,        \* simple_flask_api: the global model is loaded
    flask_ran,          \* simple_flask_api: model(img, ...) was called for this request
    flask_hist,         \* simple_flask_api: the status codes of the requests answered before
    cam_pc,             \* borlacam: position of run() in its loop
    cam_driver,         \* borlacam: "run" for run(), "calls" for direct calls of the methods
    tts_engine,         \* borlacam: self.tts_engine, "engine", "broken" or "None"
    sound_enabled,      \* borlacam: sound_enabled of run()
    last_announcement,  \* borlacam: self.last_announcement, category -> time
    confidence_threshold, \* borlacam: self.confidence_threshold
    clock,              \* borlacam: time.time(), in tenths of a second
    spoken,             \* borlacam: the speech threads started, {[item, message, at]}
    suppressed,         \* borlacam: category -> time of the last call the cooldown turned away
    frame_log,          \* borlacam: the call of process_detections of this iteration
    frames,             \* borlacam: frames read and detected
    running,            \* borlacam: the speech threads that have not ended
    failed,             \* borlacam: the speech threads whose engine call raised
    cam_exit,           \* borlacam: how run() left its loop, "none" while it has not
    fps_counter,        \* borlacam: fps_counter of run()
    fps,                \* borlacam: the local fps of run(), "unbound" until assigned
    shown,              \* borlacam: frames passed to cv2.imshow
    released,           \* borlacam: the finally block of run() has run
    thresholds,         \* PrecisionWasteDetector: self.thresholds
    stats,              \* PrecisionWasteDetector: the counters of self.stats
    det_call,           \* PrecisionWasteDetector: the arguments of the last call
    det_result,         \* PrecisionWasteDetector: what the last call returned or raised
    calls,              \* PrecisionWasteDetector: calls made
    config,             \* PrecisionWasteDetector: the configuration given to the constructor
    det_driver,         \* deploy_precision_model: "camera" or "image" of main(), or "calls"
    feed_pc,            \* deploy_precision_model: position of process_camera_feed / process_image
    feed_exit,          \* deploy_precision_model: how the loop or process_image ended
    feed_shown,         \* deploy_precision_model: frames passed to cv2.imshow
    feed_passed,        \* deploy_precision_model: the value passed to draw_precision_results
    health_history,     \* monitoring: self.health_history, each entry by its number
    performance_history, \* monitoring: self.performance_history, each entry by its number
    mon_pc,             \* monitoring: the next check of run_monitoring_cycle
    mon_api,            \* monitoring: the API answers ("up") or the request fails ("down")
    mon_psutil,         \* monitoring: psutil works ("ok") or raises ("raises")
    mon_cycle,          \* monitoring: cycles completed
    mon_changes,        \* monitoring: times the API went up or down
    deploy_env,         \* deploy: the machine and the arguments of main()
    deploy_pc,          \* deploy: index in steps of the step to run next
    deploy_ran,         \* deploy: the names of the steps run, in order
    deploy_exit,        \* deploy: the exit status, -1 while main() runs
    deploy_displayed,   \* deploy: display_final_status() ran
    prod_req,           \* production_api: the request being served
    prod_pc,            \* production_api: "received" or "answered"
    prod_resp,          \* production_api: the response
    prod_log,           \* production_api: the detections BorlaCamAPI.predict accepted
    prod_api,           \* production_api: the global api, "None" or "loaded"
    prod_ran,           \* production_api: api.predict ran the model for this request
    prod_hist,          \* production_api: the status codes of the requests answered before
    prod_get            \* production_api: the response to the last GET request

flaskVars == <<flask_req, flask_pc, flask_resp, flask_log, flask_model, flask_ran, flask_hist>>
camVars == <<cam_pc, cam_driver, tts_engine, sound_enabled, last_announcement,
             confidence_threshold, clock, spoken, suppressed, frame_log, frames,
             running, failed, cam_exit, fps_counter, fps, shown, released>>
detVars == <<thresholds, stats, det_call, det_result, calls, config, det_driver,
             feed_pc, feed_exit, feed_shown, feed_passed>>
prodVars == <<prod_req, prod_pc, prod_resp, prod_log, prod_api, prod_ran, prod_hist, prod_get>>
monVars == <<health_history, performance_history, mon_pc, mon_api, mon_psutil,
             mon_cycle, mon_changes>>
deployVars == <<deploy_env, deploy_pc, deploy_ran, deploy_exit, deploy_displayed>>
toolVars == <<monVars, deployVars>>
vars == <<program, flaskVars, camVars, detVars, prodVars, toolVars>>

Min(a, b) == IF a < b THEN a ELSE b
Max(a, b) == IF a > b THEN a ELSE b

\* 1.0 as a score
One == 1000000
\* a confidence given in hundredths, as a score
Conf(c) == c * (One \div 100)

\* no response written yet
NoResponse == [status |-> 0, success |-> FALSE, predictions |-> <<>>, total_detections |-> 0]

(***************************************************************************)
(* simple_flask_api.predict                                                *)
(***************************************************************************)

\* list.sort(key=score, reverse=True): stable, descending
InsertDesc(p, s) ==
    LET k == Cardinality({i \in 1..Len(s) : s[i].score >= p.score})
    IN  SubSeq(s, 1, k) \o <<p>> \o SubSeq(s, k + 1, Len(s))

RECURSIVE SortDescFrom(_, _)
SortDescFrom(s, acc) ==
    IF s = <<>> THEN acc ELSE SortDescFrom(Tail(s), InsertDesc(Head(s), acc))

SortDesc(s) == SortDescFrom(s, <<>>)

\* if conf_score >= max(0.2, confidence - 0.05)
AcceptThreshold(confidence) == Max(Conf(20), confidence - Conf(5))

Accepted(confidence, boxes) ==
    SelectSeq(boxes, LAMBDA b : b.score >= AcceptThreshold(confidence))

\* the result cap
TopK == 5

\* a result that is not capped
TopUncapped(preds) == preds

\* predictions[:5]
Top(preds) == SubSeq(preds, 1, Min(TopK, Len(preds)))

Width(bbox) == bbox.x2 - bbox.x1
Height(bbox) == bbox.y2 - bbox.y1

\* a size check that turns away the lower boundary itself
TooSmallInclusive(bbox, img) == 100 * (Width(bbox) * Height(bbox)) <= img.w * img.h

\* relative_area < 0.01  /  relative_area > 0.99
TooSmall(bbox, img) == 100 * (Width(bbox) * Height(bbox)) < img.w * img.h
TooLarge(bbox, img) == 100 * (Width(bbox) * Height(bbox)) > 99 * (img.w * img.h)

\* height > 0 and (width / height > 10 or width / height < 0.1)
ExtremeAspect(bbox) ==
    /\ Height(bbox) > 0
    /\ \/ Width(bbox) > 10 * Height(bbox)
       \/ 10 * Width(bbox) < Height(bbox)

\* edge_margin = 0.02
IsNearEdge(bbox, img) ==
    \/ 100 * bbox.x1 < 2 * img.w
    \/ 100 * bbox.x2 > 98 * img.w
    \/ 100 * bbox.y1 < 2 * img.h
    \/ 100 * bbox.y2 > 98 * img.h

\* (2 * distance_from_center)^2 and (2 * max_distance)^2
Dist2(bbox, img) ==
    (bbox.x1 + bbox.x2 - img.w) * (bbox.x1 + bbox.x2 - img.w)
    + (bbox.y1 + bbox.y2 - img.h) * (bbox.y1 + bbox.y2 - img.h)
Diag2(img) == img.w * img.w + img.h * img.h

\* center_factor > 0.5   <=>  distance < 0.5 * max_distance
CenterHigh(bbox, img) == 4 * Dist2(bbox, img) < Diag2(img)
\* center_factor < 0.2   <=>  distance > 0.8 * max_distance
CenterLow(bbox, img) == 25 * Dist2(bbox, img) > 16 * Diag2(img)

\* the edge test of the loop body (lines 229-234)
EdgeDrop(pred, img) ==
    IF IsNearEdge(pred.bbox, img) /\ pred.score < Conf(25)
    THEN TRUE
    ELSE pred.score < Conf(15)

\* the centre-bias test with the earlier confidence bound 0.6
CenterDropStrict(pred, img) ==
    /\ ~CenterHigh(pred.bbox, img)
    /\ CenterLow(pred.bbox, img)
    /\ pred.score < Conf(60)

\* the centre-bias test of the loop body (lines 247-252)
CenterDrop(pred, img) ==
    /\ ~CenterHigh(pred.bbox, img)
    /\ CenterLow(pred.bbox, img)
    /\ pred.score < Conf(45)

\* is_valid_detection at the end of the loop body
IsValidDetection(pred, img) ==
    /\ ~TooSmall(pred.bbox, img)
    /\ ~TooLarge(pred.bbox, img)
    /\ ~ExtremeAspect(pred.bbox)
    /\ ~EdgeDrop(pred, img)
    /\ ~CenterDrop(pred, img)

\* pred['score'] = min(confidence * 1.1, 0.98) when center_factor > 0.5
CenterBoost(pred, img) ==
    IF CenterHigh(pred.bbox, img)
    THEN [pred EXCEPT !.score = Min((pred.score * 11) \div 10, Conf(98))]
    ELSE pred

\* organic tiers whose top tier boosts less than the tier below it
OrganicBoostDip(base_score) ==
    IF base_score > Conf(45) THEN Min((base_score * 105) \div 100, Conf(98))
    ELSE IF base_score > Conf(35) THEN Min((base_score * 112) \div 100, Conf(95))
    ELSE IF base_score > Conf(25) THEN Min((base_score * 108) \div 100, Conf(92))
    ELSE base_score

\* the organic tiers (lines 265-272)
OrganicBoost(base_score) ==
    IF base_score > Conf(45) THEN Min((base_score * 115) \div 100, Conf(98))
    ELSE IF base_score > Conf(35) THEN Min((base_score * 112) \div 100, Conf(95))
    ELSE IF base_score > Conf(25) THEN Min((base_score * 108) \div 100, Conf(92))
    ELSE base_score

RecyclableBoost(base_score) ==
    IF base_score > Conf(40) THEN Min((base_score * 115) \div 100, Conf(95))
    ELSE IF base_score > Conf(30) THEN Min((base_score * 110) \div 100, Conf(90))
    ELSE IF base_score > Conf(25) THEN Min((base_score * 105) \div 100, Conf(85))
    ELSE base_score

\* aspect_ratio < 0.6 or aspect_ratio > 1.8, for height > 0
BottleOrCanShape(bbox) ==
    /\ Height(bbox) > 0
    /\ \/ 10 * Width(bbox) < 6 * Height(bbox)
       \/ 10 * Width(bbox) > 18 * Height(bbox)

ShapeBoost(score, bbox) ==
    IF BottleOrCanShape(bbox) THEN Min((score * 11) \div 10, Conf(98)) ELSE score

\* the class-specific loop body (lines 261-294)
ClassBoost(pred) ==
    IF pred.label = "organic"
    THEN [pred EXCEPT !.score = OrganicBoost(pred.score)]
    ELSE IF pred.label = "recyclable"
    THEN [pred EXCEPT !.score = ShapeBoost(RecyclableBoost(pred.score), pred.bbox)]
    ELSE pred


\* the indices of `preds` that pass the geometric checks
ValidIdx(preds, img) == {i \in 1..Len(preds) : IsValidDetection(preds[i], img)}

RECURSIVE Pick(_, _, _)
Pick(s, keep, i) ==
    IF i > Len(s) THEN <<>>
    ELSE (IF i \in keep THEN <<s[i]>> ELSE <<>>) \o Pick(s, keep, i + 1)

\* a de-duplication that keeps the first detection of a class
ReplacesFirstWins(pred, seen) == \A j \in 1..Len(seen) : seen[j].label # pred.label

\* "if class_name not in seen or pred['score'] > seen[class_name]['score']":
\* the entry of a class is the first detection of the maximal score
Replaces(pred, seen) ==
    \/ \A j \in 1..Len(seen) : seen[j].label # pred.label
    \/ \E j \in 1..Len(seen) : seen[j].label = pred.label /\ pred.score > seen[j].score

RECURSIVE BestPerClassFrom(_, _)
BestPerClassFrom(preds, seen) ==
    IF preds = <<>> THEN seen
    ELSE LET p == Head(preds)
             has == \E j \in 1..Len(seen) : seen[j].label = p.label
             nxt == IF ~Replaces(p, seen) THEN seen
                    ELSE IF has
                    THEN [j \in 1..Len(seen) |->
                             IF seen[j].label = p.label THEN p ELSE seen[j]]
                    ELSE Append(seen, p)
         IN  BestPerClassFrom(Tail(preds), nxt)

\* no de-duplication at all
BestPerClassKeepAll(preds) == preds

\* list(seen_classes.values()): one entry per class, in order of first sight
BestPerClass(preds) == BestPerClassFrom(preds, <<>>)

\* a final floor of 0.4
FinalFloorHigh(preds) == SelectSeq(preds, LAMBDA p : p.score >= Conf(40))

\* if pred['score'] >= 0.2
FinalFloor(preds) == SelectSeq(preds, LAMBDA p : p.score >= Conf(20))

\* the handler from the inference result on (lines 138-340)
PredictStages(confidence, boxes, img) ==
    LET accepted == Accepted(confidence, boxes)
        top      == Top(SortDesc(accepted))
        keep     == ValidIdx(top, img)
        kept_raw == Pick(top, keep, 1)
        centred  == Pick([i \in 1..Len(top) |-> CenterBoost(top[i], img)], keep, 1)
        rescored == [i \in 1..Len(centred) |-> ClassBoost(centred[i])]
        deduped  == SortDesc(BestPerClass(rescored))
        final    == IF Len(accepted) > 0
                    THEN SortDesc(FinalFloor(BestPerClass(deduped)))
                    ELSE <<>>
    IN  [raw_detections   |-> Len(boxes),
         total_detections |-> Len(accepted),
         accepted |-> accepted,
         top      |-> top,
         kept     |-> keep,
         kept_raw |-> kept_raw,
         rescored |-> rescored,
         deduped  |-> deduped,
         final    |-> final]

Response(stages) ==
    [status           |-> 200,
     success          |-> TRUE,
     predictions      |-> Top(stages.final),
     total_detections |-> stages.total_detections]

(***************************************************************************)
(* The requests served: a frame of up to MaxBoxes detections drawn from a  *)
(* few kinds, or a frame of one detection of any confidence and box.       *)
(***************************************************************************)
MaxBoxes == 6

Box(x1, y1, x2, y2) == [x1 |-> x1, y1 |-> y1, x2 |-> x2, y2 |-> y2]
Det(label, c, bbox) == [label |-> label, score |-> Conf(c), bbox |-> bbox]

Image == [w |-> 100, h |-> 100]

CentreBox == Box(30, 30, 70, 70)
TallBox   == Box(40, 20, 60, 80)
CornerBox == Box(2, 2, 14, 14)
EdgeBox   == Box(0, 40, 20, 60)

Boxes ==
    { CentreBox, TallBox, CornerBox, EdgeBox,
      Box(45, 45, 55, 55),      \* relative area exactly 0.01
      Box(45, 45, 54, 55),      \* relative area 0.009
      Box(50, 50, 50, 50),      \* zero area
      Box(0, 0, 99, 100),       \* relative area exactly 0.99
      Box(0, 0, 100, 100),      \* the whole frame
      Box(10, 48, 90, 52) }     \* a sliver, aspect ratio 20

Labels == {"organic", "recyclable", "trash"}

AnyDets == { Det(l, c, b) : l \in Labels, c \in 0..100, b \in Boxes }

FrameDets ==
    { Det("organic", 90, CentreBox),
      Det("recyclable", 50, CentreBox),
      Det("recyclable", 48, TallBox),
      Det("trash", 60, CentreBox) }

\* a centred bottle filling 5% of the frame and a centred banana filling 50%
BottleDet == Det("recyclable", 42, Box(40, 38, 60, 63))
BananaDet == Det("organic", 30, Box(0, 25, 100, 75))

Frames ==
    (UNION { [1..n -> FrameDets] : n \in 0..MaxBoxes })
    \cup { <<d>> : d \in AnyDets }
    \cup { <<BottleDet, BananaDet>>, <<BananaDet, BottleDet>> }

RequestConfidences == { Conf(25), Conf(30), Conf(50) }

(***************************************************************************)
(* The request body and its decoding.  The 'image' field is one of         *)
(*   "no_body"     the body is {} (falsy)                                  *)
(*   "absent"      a body without the key, e.g. {"confidence": 0.3}        *)
(*   "empty"       the empty string                                        *)
(*   "not_base64"  a string b64decode rejects, e.g. 'invalid_base64'       *)
(*                 (binascii.Error: incorrect padding)                     *)
(*   "junk"        a string of characters outside the base64 alphabet,     *)
(*                 e.g. '!!!!': b64decode discards them and returns b''    *)
(*   "not_image"   the base64 text of bytes that are no image              *)
(*   "image"       the base64 text of an encoded image                     *)
(***************************************************************************)
ImageFields == {"no_body", "absent", "empty", "not_base64", "junk", "not_image", "image"}

\* base64.b64decode(image_data): the bytes decoded, or "Error" when it raises
B64Decode(image) ==
    CASE image = "not_base64" -> "Error"
      [] image = "not_image" -> "other_bytes"
      [] image = "image" -> "image_bytes"
      [] OTHER -> "no_bytes"

\* cv2.imdecode(np.frombuffer(image_bytes, np.uint8), cv2.IMREAD_COLOR):
\* the image, None for bytes that are no image, and cv2.error for an empty
\* buffer (OpenCV asserts !buf.empty())
ImDecode(image_bytes) ==
    CASE image_bytes = "image_bytes" -> "img"
      [] image_bytes = "other_bytes" -> "None"
      [] OTHER -> "error"

\* jsonify({'error': message}), code
ErrorResponse(code, message) == [status |-> code, error |-> message]

\* nothing printed about stages
NoStages == PredictStages(Conf(30), <<>>, Image)

\* predict() of simple_flask_api (lines 82-346): the response, the stages
\* printed, and whether model(img, ...) was called
FlaskHandle(model_loaded, req) ==
    LET refuse(code, message) ==
            [resp |-> ErrorResponse(code, message), log |-> NoStages, ran |-> FALSE]
    IN  IF ~model_loaded THEN refuse(500, "No model loaded")
        ELSE IF req.image = "no_body" THEN refuse(400, "No data provided")
        ELSE IF req.image \in {"absent", "empty"} THEN refuse(400, "No image data provided")
        ELSE IF B64Decode(req.image) = "Error" THEN refuse(400, "Failed to decode image: ...")
        ELSE IF ImDecode(B64Decode(req.image)) = "error" THEN refuse(500, "cv2.error")
        ELSE IF ImDecode(B64Decode(req.image)) = "None" THEN refuse(400, "Failed to decode image")
        ELSE IF req.infer = "raises"
        THEN [resp |-> ErrorResponse(500, "inference error"), log |-> NoStages, ran |-> TRUE]
        ELSE LET stages == PredictStages(req.confidence, req.boxes, req.img)
             IN  [resp |-> Response(stages), log |-> stages, ran |-> TRUE]

\* requests with a decodable image, served by a loaded model
GoodRequests ==
    [confidence : RequestConfidences, boxes : Frames, img : {Image},
     image : {"image"}, infer : {"ok"}]

\* requests of every kind of body, and inference that raises
OddRequests ==
    [confidence : {Conf(30)}, boxes : {<<>>}, img : {Image},
     image : ImageFields, infer : {"ok"}]
    \cup [confidence : {Conf(30)}, boxes : {<<Det("organic", 90, CentreBox)>>}, img : {Image},
          image : {"image"}, infer : {"ok", "raises"}]

MaxRequests == 2

\* the state of a server that is not running
FlaskIdle ==
    /\ flask_req = [confidence |-> Conf(30), boxes |-> <<>>, img |-> Image,
                    image |-> "image", infer |-> "ok"]
    /\ flask_pc = "idle"
    /\ flask_resp = NoResponse
    /\ flask_log = NoStages
    /\ flask_model = FALSE
    /\ flask_ran = FALSE
    /\ flask_hist = <<>>

(***************************************************************************)
(* deploy_precision_model.PrecisionWasteDetector                           *)
(***************************************************************************)

\* the default thresholds of __init__
\* the keys of the default thresholds
ThresholdKeys == {"organic", "recyclable", "iou", "global_conf"}

DefaultThresholds ==
    [k \in {"organic", "recyclable", "iou", "global_conf"} |->
        CASE k = "organic" -> Conf(40)
          [] k = "recyclable" -> Conf(70)
          [] k = "iou" -> Conf(45)
          [] k = "global_conf" -> Conf(25)]

ZeroStats ==
    [total_detections |-> 0, organic_detections |-> 0,
     recyclable_detections |-> 0, uncertain_detections |-> 0]

\* f'{x:.3f}': x rounded to three decimals
Format3(x) == ((x + (One \div 2000)) \div (One \div 1000)) * (One \div 1000)

\* an acceptance test that is strict at the threshold
ConfidentStrict(th, class_name, confidence) ==
    \/ class_name = "organic" /\ confidence > th["organic"]
    \/ class_name = "recyclable" /\ confidence > th["recyclable"]

\* the class-specific tests of lines 103 and 113
Confident(th, class_name, confidence) ==
    \/ class_name = "organic" /\ confidence >= th["organic"]
    \/ class_name = "recyclable" /\ confidence >= th["recyclable"]

\* the loop over the boxes (lines 97-132), on the state
\* acc = [raised, detections, stats]; the look-up self.thresholds[class_name]
\* of the uncertain branch raises KeyError for a class without a threshold
RECURSIVE DetectLoop(_, _, _)
DetectLoop(th, boxes, acc) ==
    IF boxes = <<>> \/ acc.raised THEN acc
    ELSE LET box == Head(boxes)
             nxt ==
                IF Confident(th, box.class_name, box.confidence)
                THEN [acc EXCEPT
                         !.detections = Append(@, [class |-> box.class_name,
                                                   confidence |-> box.confidence,
                                                   status |-> "confident",
                                                   reason |-> <<>>]),
                         !.stats[IF box.class_name = "organic"
                                 THEN "organic_detections"
                                 ELSE "recyclable_detections"] = @ + 1]
                ELSE IF box.class_name \notin DOMAIN th
                THEN [acc EXCEPT !.raised = TRUE]
                ELSE [acc EXCEPT
                         !.detections = Append(@, [class |-> box.class_name,
                                                   confidence |-> box.confidence,
                                                   status |-> "uncertain",
                                                   reason |-> <<Format3(box.confidence),
                                                                Format3(th[box.class_name])>>]),
                         !.stats.uncertain_detections = @ + 1]
         IN  DetectLoop(th, Tail(boxes), nxt)

\* detect_with_precision_control(image, return_confidence): the new statistics
\* and what the call returns ("pair": a tuple of two lists, "list") or raises;
\* judged is filtered_detections as the loop left it
DetectWithPrecisionControl(th, st, boxes, return_confidence) ==
    IF boxes = <<>>
    THEN [stats |-> st,
          result |-> [kind |-> "pair", detections |-> <<>>, confidences |-> <<>>,
                      judged |-> <<>>]]
    ELSE LET acc == DetectLoop(th, boxes, [raised |-> FALSE, detections |-> <<>>, stats |-> st])
         IN  IF acc.raised
             THEN [stats |-> acc.stats,
                   result |-> [kind |-> "KeyError", detections |-> <<>>, confidences |-> <<>>,
                               judged |-> acc.detections]]
             ELSE [stats |-> [acc.stats EXCEPT !.total_detections = @ + Len(acc.detections)],
                   result |-> [kind |-> IF return_confidence THEN "pair" ELSE "list",
                               detections |-> acc.detections,
                               confidences |-> IF return_confidence
                                               THEN [i \in 1..Len(acc.detections) |->
                                                        acc.detections[i].confidence]
                                               ELSE <<>>,
                               judged |-> acc.detections]]

MaxCalls == 2
MaxDetBoxes == 2

DetBox(class_name, c) == [class_name |-> class_name, confidence |-> Conf(c)]
DetBoxes ==
    { DetBox("organic", 40),
      DetBox("recyclable", 69), DetBox("recyclable", 70),
      DetBox("trash", 50) }
DetResults == UNION { [1..n -> DetBoxes] : n \in 0..MaxDetBoxes }

NoCall == [boxes |-> <<>>, return_confidence |-> TRUE]
NoResult == [kind |-> "none", detections |-> <<>>, confidences |-> <<>>, judged |-> <<>>]

\* the entries a configuration document can have under 'thresholds': a
\* known class, the fallback, and a key that is none of the defaults
SuppliedEntries == { <<"organic", Conf(50)>>, <<"global_conf", Conf(10)>>, <<"trash", Conf(60)>> }

NoDr == [kind |-> "absent", value |-> 0]
NoTh == [kind |-> "absent", supplied |-> {}]

\* 'deployment_recommendations' of the document: absent, an object without
\* 'primary_threshold', or one whose primary_threshold is value (0 is falsy)
Drs == { NoDr, [kind |-> "no_primary", value |-> 0],
         [kind |-> "value", value |-> 0], [kind |-> "value", value |-> Conf(30)] }

\* 'thresholds' of the document: absent, a value dict.update() refuses, or a
\* mapping
Ths == { NoTh, [kind |-> "not_a_mapping", supplied |-> {}] }
       \cup { [kind |-> "mapping", supplied |-> S] : S \in SUBSET SuppliedEntries }

\* no config_path
NoConfig == [file |-> "no_path", dr |-> NoDr, th |-> NoTh]

\* the configurations: no path, a path to no file, a file that open() or
\* json.load() refuses, and JSON objects
Configs ==
    { [file |-> f, dr |-> NoDr, th |-> NoTh] : f \in {"no_path", "missing", "unreadable"} }
    \cup [file : {"document"}, dr : Drs, th : Ths]

\* self.thresholds.update(supplied)
Update(th, supplied) ==
    [k \in DOMAIN th \cup { p[1] : p \in supplied } |->
        IF \E p \in supplied : p[1] = k
        THEN (CHOOSE p \in supplied : p[1] = k)[2]
        ELSE th[k]]

\* a load_config without the primary_threshold of deployment_recommendations
LoadConfigThresholdsOnly(th, cfg) ==
    IF cfg.file = "unreadable" THEN th
    ELSE IF cfg.th.kind = "mapping" THEN Update(th, cfg.th.supplied)
    ELSE th

\* load_config(config_path) on the thresholds th: any exception inside the
\* try leaves what was assigned before it
LoadConfig(th, cfg) ==
    IF cfg.file = "unreadable" THEN th
    ELSE IF cfg.dr.kind = "no_primary" THEN th
    ELSE LET primary == IF cfg.dr.kind = "value" /\ cfg.dr.value # 0
                        THEN [th EXCEPT !["global_conf"] = cfg.dr.value]
                        ELSE th
         IN  IF cfg.th.kind = "mapping" THEN Update(primary, cfg.th.supplied)
             ELSE primary

\* the thresholds after PrecisionWasteDetector(model_path, config_path)
Construct(cfg) ==
    IF cfg.file \in {"no_path", "missing"} THEN DefaultThresholds
    ELSE LoadConfig(DefaultThresholds, cfg)

\* draw_precision_results(image, detections) on what a call of
\* detect_with_precision_control returned: "for detection in detections"
\* reads detection['bbox'], which raises TypeError when the value is the
\* tuple of two lists, whose elements are lists
DrawPrecisionResults(passed) ==
    IF passed.kind = "list" THEN "drawn" ELSE "TypeError"

\* the state of a detector that is not running
DetIdle ==
    /\ thresholds = DefaultThresholds
    /\ stats = ZeroStats
    /\ det_call = NoCall
    /\ det_result = NoResult
    /\ calls = 0
    /\ config = NoConfig
    /\ det_driver = "none"
    /\ feed_pc = "idle"
    /\ feed_exit = "none"
    /\ feed_shown = 0
    /\ feed_passed = NoResult

(***************************************************************************)
(* production_api                                                          *)
(***************************************************************************)

\* an acceptance test that is strict at the threshold
ProdAcceptedStrict(confidence, boxes) ==
    SelectSeq(boxes, LAMBDA b : b.score > confidence)

\* if conf_score >= confidence (lines 114-128)
ProdAccepted(confidence, boxes) ==
    SelectSeq(boxes, LAMBDA b : b.score >= confidence)

\* confidence = max(0.1, min(0.9, confidence))
Clamp(confidence) == Max(Conf(10), Min(Conf(90), confidence))

\* BorlaCamAPI.predict(image, confidence)
ApiPredict(confidence, boxes) == Top(SortDesc(ProdAccepted(confidence, boxes)))

MaxProdBoxes == 6

ProdDets ==
    { [label |-> "organic", score |-> Conf(25)],
      [label |-> "recyclable", score |-> Conf(30)],
      [label |-> "organic", score |-> Conf(90)] }
ProdFrames == UNION { [1..n -> ProdDets] : n \in 0..MaxProdBoxes }
ProdConfidences == { Conf(5), Conf(25), Conf(30), Conf(95) }

\* predict() of production_api (lines 173-222): the response, the detections
\* accepted, and whether the model ran.  numeric: float(data.get('confidence',
\* 0.25)) returns (it raises for null or a string that is no number)
ProdHandle(api, req) ==
    LET refuse(code, message) ==
            [resp |-> ErrorResponse(code, message), log |-> <<>>, ran |-> FALSE]
    IN  IF api # "loaded" THEN refuse(503, "Model not loaded")
        ELSE IF req.image \in {"no_body", "absent"} THEN refuse(400, "No image data provided")
        ELSE IF ~req.numeric THEN refuse(500, "Prediction failed")
        ELSE IF B64Decode(req.image) = "Error" THEN refuse(400, "Invalid image data")
        ELSE IF ImDecode(B64Decode(req.image)) = "error" THEN refuse(500, "Prediction failed")
        ELSE IF ImDecode(B64Decode(req.image)) = "None" THEN refuse(400, "Could not decode image")
        ELSE IF req.infer = "raises"
        THEN [resp |-> ErrorResponse(500, "Prediction failed"), log |-> <<>>, ran |-> TRUE]
        ELSE LET confidence == Clamp(req.confidence)
                 predictions == ApiPredict(confidence, req.boxes)
             IN  [resp |-> [status |-> 200, success |-> TRUE,
                            predictions |-> predictions,
                            total_detections |-> Len(predictions)],
                  log |-> ProdAccepted(confidence, req.boxes),
                  ran |-> TRUE]

\* a health check that answers 200 whatever the state of the model
HealthCheckAlwaysOk(api, gpu, now) ==
    [route |-> "/health",
     status |-> 200,
     json |-> [status |-> IF api = "loaded" THEN "healthy" ELSE "unhealthy",
               model_loaded |-> api = "loaded",
               gpu_available |-> gpu,
               timestamp |-> now]]

\* health_check() (lines 146-156); gpu is torch.cuda.is_available(), now the
\* time stamp
HealthCheck(api, gpu, now) ==
    LET status == [status |-> IF api = "loaded" THEN "healthy" ELSE "unhealthy",
                   model_loaded |-> api = "loaded",
                   gpu_available |-> gpu,
                   timestamp |-> now]
    IN  [route |-> "/health",
         status |-> IF status.status = "healthy" THEN 200 ELSE 503,
         json |-> status]

\* api_status() (lines 158-171)
ApiStatus(api, gpu) ==
    IF api # "loaded"
    THEN [route |-> "/api/status", status |-> 503, json |-> [error |-> "API not ready"]]
    ELSE [route |-> "/api/status", status |-> 200,
          json |-> [success |-> TRUE,
                    model_loaded |-> TRUE,
                    model_classes |-> <<"organic", "recyclable">>,
                    device |-> IF gpu THEN "cuda:0" ELSE "cpu",
                    gpu_name |-> IF gpu THEN "gpu" ELSE "None",
                    version |-> "1.0.0"]]

\* no GET request answered yet
NoGet == [route |-> "none", status |-> 0, json |-> [error |-> "no request"]]

ProdRequest(image, numeric, infer, boxes) ==
    [confidence |-> Conf(25), boxes |-> boxes, image |-> image,
     numeric |-> numeric, infer |-> infer]

\* requests with a decodable image
ProdGoodRequests ==
    [confidence : ProdConfidences, boxes : ProdFrames, image : {"image"},
     numeric : {TRUE}, infer : {"ok"}]

\* requests of every kind of body, a confidence that is no number, and
\* inference that raises
ProdOddRequests ==
    { ProdRequest(image, TRUE, "ok", <<>>) : image \in ImageFields }
    \cup { ProdRequest("not_base64", FALSE, "ok", <<>>),
           ProdRequest("image", TRUE, "ok", <<[label |-> "organic", score |-> Conf(90)]>>),
           ProdRequest("image", TRUE, "raises", <<[label |-> "organic", score |-> Conf(90)]>>) }

\* the state of a production server that is not running
ProdIdle ==
    /\ prod_req = ProdRequest("image", TRUE, "ok", <<>>)
    /\ prod_pc = "idle"
    /\ prod_resp = NoResponse
    /\ prod_log = <<>>
    /\ prod_api = "None"
    /\ prod_ran = FALSE
    /\ prod_hist = <<>>
    /\ prod_get = NoGet

(***************************************************************************)
(* monitoring.BorlaCamMonitor                                              *)
(***************************************************************************)

\* "Keep only last 100 entries"
HistoryCap == 100

\* the number of the entry that the next append makes
NextEntry(history) == IF history = <<>> THEN 1 ELSE history[Len(history)] + 1

\* history.append(data); if len(history) > 100: history.pop(0)
AppendCapped(history) ==
    LET appended == Append(history, NextEntry(history))
    IN  IF Len(appended) > HistoryCap THEN Tail(appended) ELSE appended

\* check_health(): the history after the call.  When the request raises
\* RequestException the entry is appended in the except branch, which has no
\* trimming.
CheckHealth(history, api) ==
    IF api = "up" THEN AppendCapped(history)
    ELSE Append(history, NextEntry(history))

\* check_performance(): the history after the call.  A failing request to
\* /api/status is caught inside and the entry is still made; when psutil
\* raises, the outer except returns None and nothing is appended.
CheckPerformance(history, api, psutil) ==
    IF psutil = "raises" THEN history ELSE AppendCapped(history)

MaxCycles == 102
MaxApiChanges == 1

\* the state of a monitor that is not running
MonIdle ==
    /\ health_history = <<>>
    /\ performance_history = <<>>
    /\ mon_pc = "idle"
    /\ mon_api = "up"
    /\ mon_psutil = "ok"
    /\ mon_cycle = 0
    /\ mon_changes = 0

(***************************************************************************)
(* deploy                                                                  *)
(***************************************************************************)

\* steps of main(), for the flags build_frontend_flag and
\* restart_services_flag
Steps(env) ==
    <<"check_prerequisites", "check_model_files", "cleanup_previous_deployment",
      "setup_environment", "copy_model_files">>
    \o (IF env.build_frontend_flag THEN <<"build_frontend">> ELSE <<>>)
    \o <<"build_docker_containers">>
    \o (IF env.restart_services_flag THEN <<"start_services", "health_check">> ELSE <<>>)

\* the work of the step succeeds on the machine env
WorkSucceeds(step, env) ==
    CASE step = "check_prerequisites" -> env.docker /\ env.compose
      [] step = "check_model_files" -> env.model
      [] step = "cleanup_previous_deployment" -> TRUE
      [] step = "setup_environment" -> TRUE
      [] step = "copy_model_files" -> env.model
      [] step = "build_frontend" -> env.frontend
      [] step = "build_docker_containers" -> env.build
      [] step = "start_services" -> env.start
      [] step = "health_check" -> env.healthy

\* what step_function() gives: "True" or "False" as returned, "None" for the
\* two functions that end without a return statement, "exit" when
\* run_command (check=True) ends the process with sys.exit(1)
StepReturns(step, env) ==
    IF step \in {"cleanup_previous_deployment", "setup_environment"} THEN "None"
    ELSE IF WorkSucceeds(step, env) THEN "True"
    ELSE IF step \in {"build_docker_containers", "start_services"} THEN "exit"
    ELSE "False"

Machines ==
    [docker : BOOLEAN, compose : BOOLEAN, model : BOOLEAN, frontend : BOOLEAN,
     build : BOOLEAN, start : BOOLEAN, healthy : BOOLEAN,
     build_frontend_flag : BOOLEAN, restart_services_flag : BOOLEAN]

\* a machine on which everything works, and the default arguments
GoodMachine ==
    [docker |-> TRUE, compose |-> TRUE, model |-> TRUE, frontend |-> TRUE,
     build |-> TRUE, start |-> TRUE, healthy |-> TRUE,
     build_frontend_flag |-> TRUE, restart_services_flag |-> TRUE]

\* the state of a deployment that is not running
DeployIdle ==
    /\ deploy_env = GoodMachine
    /\ deploy_pc = 0
    /\ deploy_ran = <<>>
    /\ deploy_exit = -1
    /\ deploy_displayed = FALSE

\* the state of the tools that are not running
ToolsIdle == MonIdle /\ DeployIdle

(***************************************************************************)
(* borlacam.BorlaCam                                                       *)
(***************************************************************************)

\* waste_mapping of map_to_waste_category
WasteMapping ==
    [l \in {"bottle", "cup", "fork", "knife", "spoon", "bowl", "toothbrush"} |-> "plastic"]
    @@ [l \in {"banana", "apple", "orange", "carrot", "broccoli", "pizza", "donut",
               "cake", "sandwich", "hot dog"} |-> "organic"]
    @@ [l \in {"book"} |-> "paper"]
    @@ [l \in {"laptop", "keyboard", "mouse", "cell phone", "tv", "scissors",
               "hair drier"} |-> "metal"]
    @@ [l \in {"teddy bear"} |-> "trash"]

\* a look-up without default: an unlisted label comes back as it is
map_to_waste_category_no_default(detected_class) ==
    IF detected_class \in DOMAIN WasteMapping THEN WasteMapping[detected_class]
    ELSE detected_class

\* waste_mapping.get(detected_class, 'trash')
map_to_waste_category(detected_class) ==
    IF detected_class \in DOMAIN WasteMapping THEN WasteMapping[detected_class] ELSE "trash"

\* self.announcement_cooldown = 3.0 seconds, in tenths
announcement_cooldown == 30

\* the text handed to the speech thread: the title and its suffix
Message(class_name) ==
    IF class_name \in {"plastic", "paper", "metal", "glass", "cardboard"}
    THEN <<class_name, "detected - Recyclable waste">>
    ELSE IF class_name \in {"organic", "food"}
    THEN <<class_name, "detected - Compostable waste">>
    ELSE <<class_name, "detected">>

\* a cooldown test that lets the call at exactly the cooldown wait
InCooldownInclusive(la, class_name, current_time) ==
    /\ class_name \in DOMAIN la
    /\ current_time - la[class_name] <= announcement_cooldown

\* the cooldown test of announce_detection (lines 97-99)
InCooldown(la, class_name, current_time) ==
    /\ class_name \in DOMAIN la
    /\ current_time - la[class_name] < announcement_cooldown

\* an announce_detection that stamps the table before it tests the cooldown
AnnounceDetectionStampsAlways(st, tts, class_name, current_time) ==
    LET stamped == [c \in DOMAIN st.la \cup {class_name} |->
                       IF c = class_name THEN current_time ELSE st.la[c]]
    IN  IF tts = "None" THEN st
        ELSE IF InCooldown(st.la, class_name, current_time)
        THEN [st EXCEPT !.la = stamped,
                        !.suppressed = [c \in DOMAIN st.suppressed \cup {class_name} |->
                                           IF c = class_name THEN current_time
                                           ELSE st.suppressed[c]]]
        ELSE [st EXCEPT !.la = stamped,
                        !.spoken = @ \cup {[item |-> class_name,
                                            message |-> Message(class_name),
                                            at |-> current_time]},
                        !.running = @ \cup {[item |-> class_name,
                                             message |-> Message(class_name),
                                             at |-> current_time]}]

\* an announce_detection that speaks in the calling thread and waits for the
\* speech to end
AnnounceDetectionBlocking(st, tts, class_name, current_time) ==
    IF tts = "None" THEN st
    ELSE IF InCooldown(st.la, class_name, current_time)
    THEN [st EXCEPT !.suppressed = [c \in DOMAIN st.suppressed \cup {class_name} |->
                                       IF c = class_name THEN current_time
                                       ELSE st.suppressed[c]]]
    ELSE [st EXCEPT
             !.la = [c \in DOMAIN st.la \cup {class_name} |->
                        IF c = class_name THEN current_time ELSE st.la[c]],
             !.spoken = @ \cup {[item |-> class_name,
                                 message |-> Message(class_name),
                                 at |-> current_time]}]

\* an announce_detection that speaks in the calling thread with neither the
\* test of the engine nor the try/except around say and runAndWait
AnnounceDetectionUnguarded(st, tts, class_name, current_time) ==
    IF InCooldown(st.la, class_name, current_time)
    THEN [st EXCEPT !.suppressed = [c \in DOMAIN st.suppressed \cup {class_name} |->
                                       IF c = class_name THEN current_time
                                       ELSE st.suppressed[c]]]
    ELSE [st EXCEPT
             !.la = [c \in DOMAIN st.la \cup {class_name} |->
                        IF c = class_name THEN current_time ELSE st.la[c]],
             !.spoken = @ \cup {[item |-> class_name,
                                 message |-> Message(class_name),
                                 at |-> current_time]},
             !.raised = @ \/ tts # "engine"]

\* announce_detection(class_name) at time current_time, on the state
\* st = [la, spoken, suppressed, running, raised] with the engine reference
\* tts: "None", "engine", or "broken" for an engine whose say or runAndWait
\* raises.  The speech task is a daemon thread that is started and left
\* running; raised tells that an exception reached the caller.
AnnounceDetection(st, tts, class_name, current_time) ==
    IF tts = "None" THEN st
    ELSE IF InCooldown(st.la, class_name, current_time)
    THEN [st EXCEPT !.suppressed = [c \in DOMAIN st.suppressed \cup {class_name} |->
                                       IF c = class_name THEN current_time
                                       ELSE st.suppressed[c]]]
    ELSE [st EXCEPT
             !.la = [c \in DOMAIN st.la \cup {class_name} |->
                        IF c = class_name THEN current_time ELSE st.la[c]],
             !.spoken = @ \cup {[item |-> class_name,
                                 message |-> Message(class_name),
                                 at |-> current_time]},
             !.running = @ \cup {[item |-> class_name,
                                  message |-> Message(class_name),
                                  at |-> current_time]}]

\* detected_items: the categories of the boxes at or above the threshold,
\* each once (a set), in order of first detection
RECURSIVE DetectedItemsFrom(_, _, _)
DetectedItemsFrom(boxes, threshold, items) ==
    IF boxes = <<>> THEN items
    ELSE LET box == Head(boxes)
             waste_type == map_to_waste_category(box.class_name)
             nxt == IF box.confidence >= threshold
                       /\ \A i \in 1..Len(items) : items[i] # waste_type
                    THEN Append(items, waste_type)
                    ELSE items
         IN  DetectedItemsFrom(Tail(boxes), threshold, nxt)

\* detected_items kept as a list, and no test of the confidence
RECURSIVE DetectedItemsAll(_, _)
DetectedItemsAll(boxes, threshold) ==
    IF boxes = <<>> THEN <<>>
    ELSE <<map_to_waste_category(Head(boxes).class_name)>>
         \o DetectedItemsAll(Tail(boxes), threshold)

DetectedItems(boxes, threshold) == DetectedItemsFrom(boxes, threshold, <<>>)

\* for item in detected_items: self.announce_detection(item)
RECURSIVE AnnounceAll(_, _, _, _)
AnnounceAll(st, tts, items, current_time) ==
    IF items = <<>> THEN st
    ELSE AnnounceAll(AnnounceDetection(st, tts, Head(items), current_time),
                     tts, Tail(items), current_time)

MaxFrames == 3
MaxClock == 31
MaxFrameBoxes == 2

CamBox(class_name, c) == [class_name |-> class_name, confidence |-> Conf(c)]
CamBoxes == { CamBox("banana", 40), CamBox("banana", 50), CamBox("person", 50) }
CamResults == UNION { [1..n -> CamBoxes] : n \in 0..MaxFrameBoxes }

\* the time between two looks at the clock, in tenths of a second
Delays == {10, 21}

\* what cv2.waitKey(1) & 0xFF can be for the loop: no key of the loop's, or
\* one of its keys
Keys == {"none", "q", "s", "+", "=", "-"}

\* the engine reference after setup_tts: pyttsx3.init() raised ("None"), or
\* returned an engine whose say and runAndWait work ("engine") or raise
\* ("broken")
Engines == {"engine", "broken", "None"}

\* the frame counter wraps every FpsEvery frames to compute fps
FpsEvery == 30

NoFrame == [boxes |-> <<>>, threshold |-> Conf(50), tts |-> "None", items |-> <<>>,
            at |-> 0, key |-> "none"]

\* the state of a camera application that is not running
CamIdle ==
    /\ cam_pc = "idle"
    /\ cam_driver = "none"
    /\ tts_engine = "None"
    /\ sound_enabled = TRUE
    /\ last_announcement = <<>>
    /\ confidence_threshold = Conf(50)
    /\ clock = 0
    /\ spoken = {}
    /\ suppressed = <<>>
    /\ frame_log = NoFrame
    /\ frames = 0
    /\ running = {}
    /\ failed = {}
    /\ cam_exit = "none"
    /\ fps_counter = 0
    /\ fps = "unbound"
    /\ shown = 0
    /\ released = FALSE

\* BorlaCam(), load_model() and setup_camera(); then either run() has reached
\* its loop (cam_driver = "run") or a caller drives process_detections
\* directly (cam_driver = "calls").  setup_tts leaves None when
\* pyttsx3.init() raises.
InitCam ==
    /\ program = "borlacam"
    /\ ToolsIdle
    /\ FlaskIdle
    /\ DetIdle
    /\ ProdIdle
    /\ cam_pc = "frame"
    /\ cam_driver \in {"run", "calls"}
    /\ tts_engine \in Engines
    /\ sound_enabled = TRUE
    /\ last_announcement = <<>>
    /\ confidence_threshold = Conf(50)
    /\ clock = 0
    /\ spoken = {}
    /\ suppressed = <<>>
    /\ frame_log = NoFrame
    /\ frames = 0
    /\ running = {}
    /\ failed = {}
    /\ cam_exit = "none"
    /\ fps_counter = 0
    /\ fps = "unbound"
    /\ shown = 0
    /\ released = FALSE

\* time passes
Tick ==
    /\ program = "borlacam"
    /\ cam_pc = "frame"
    /\ \E d \in Delays : clock + d <= MaxClock /\ clock' = clock + d
    /\ UNCHANGED <<program, toolVars, flaskVars, detVars, prodVars, cam_pc, cam_driver, tts_engine,
                   sound_enabled, last_announcement, confidence_threshold, spoken,
                   suppressed, frame_log, frames, running, failed, cam_exit,
                   fps_counter, fps, shown, released>>

\* a speech thread ends: say and runAndWait returned, or raised into the
\* bare except of speak()
SpeechEnds ==
    /\ program = "borlacam"
    /\ cam_pc = "frame"
    /\ \E t \in running :
          /\ running' = running \ {t}
          /\ failed' = IF tts_engine = "engine" THEN failed ELSE failed \cup {t}
    /\ UNCHANGED <<program, toolVars, flaskVars, detVars, prodVars, cam_pc, cam_driver, tts_engine,
                   sound_enabled, last_announcement, confidence_threshold, clock, spoken,
                   suppressed, frame_log, frames, cam_exit, fps_counter, fps, shown,
                   released>>

\* a caller runs process_detections(results, frame) on a detected frame
ProcessDetections ==
    /\ program = "borlacam"
    /\ cam_driver = "calls"
    /\ cam_pc = "frame"
    /\ frames < MaxFrames
    /\ \E boxes \in CamResults :
          LET items == DetectedItems(boxes, confidence_threshold)
              st == AnnounceAll([la |-> last_announcement, spoken |-> spoken,
                                 suppressed |-> suppressed, running |-> running,
                                 raised |-> FALSE],
                                tts_engine, items, clock)
          IN  /\ last_announcement' = st.la
              /\ spoken' = st.spoken
              /\ suppressed' = st.suppressed
              /\ running' = st.running
              /\ cam_pc' = IF st.raised THEN "error" ELSE "key"
              /\ frame_log' = [boxes |-> boxes, threshold |-> confidence_threshold,
                               tts |-> tts_engine, items |-> items, at |-> clock,
                               key |-> "none"]
    /\ frames' = frames + 1
    /\ UNCHANGED <<program, toolVars, flaskVars, detVars, prodVars, cam_driver, tts_engine,
                   sound_enabled, confidence_threshold, clock, failed, cam_exit,
                   fps_counter, fps, shown, released>>

\* the caller takes the frame that process_detections returned
Returned ==
    /\ program = "borlacam"
    /\ cam_driver = "calls"
    /\ cam_pc = "key"
    /\ cam_pc' = "frame"
    /\ frame_log' = NoFrame
    /\ UNCHANGED <<program, toolVars, flaskVars, detVars, prodVars, cam_driver, tts_engine,
                   sound_enabled, last_announcement, confidence_threshold, clock, spoken,
                   suppressed, frames, running, failed, cam_exit, fps_counter, fps,
                   shown, released>>

\* one pass of the loop of run() on a frame that was read: the model and
\* process_detections run, the info panel is drawn, fps_counter is counted,
\* and the f-string of the FPS text reads the local fps, which is assigned
\* only on a pass whose count is a multiple of 30: on any earlier pass it is
\* unbound and the read raises UnboundLocalError, which "except
\* KeyboardInterrupt" does not catch, so that the finally block releases the
\* camera and run() ends with the exception.  On a pass that gets by the
\* text, the frame is shown and key, the key that waitKey returns, is
\* handled.
RunFrame ==
    /\ program = "borlacam"
    /\ cam_driver = "run"
    /\ cam_pc = "frame"
    /\ frames < MaxFrames
    /\ \E boxes \in CamResults, key \in Keys :
          LET items == DetectedItems(boxes, confidence_threshold)
              st == AnnounceAll([la |-> last_announcement, spoken |-> spoken,
                                 suppressed |-> suppressed, running |-> running,
                                 raised |-> FALSE],
                                tts_engine, items, clock)
              counted == fps_counter + 1
              bound == IF counted % FpsEvery = 0 THEN "bound" ELSE fps
          IN  /\ last_announcement' = st.la
              /\ spoken' = st.spoken
              /\ suppressed' = st.suppressed
              /\ running' = st.running
              /\ fps_counter' = counted
              /\ fps' = bound
              /\ frame_log' = [boxes |-> boxes, threshold |-> confidence_threshold,
                               tts |-> tts_engine, items |-> items, at |-> clock,
                               key |-> key]
              /\ IF st.raised \/ bound = "unbound"
                 THEN /\ cam_pc' = "done"
                      /\ cam_exit' = IF st.raised THEN "Exception" ELSE "UnboundLocalError"
                      /\ released' = TRUE
                      /\ UNCHANGED <<shown, sound_enabled, tts_engine, confidence_threshold>>
                 ELSE /\ shown' = shown + 1
                      /\ cam_pc' = IF key = "q" THEN "done" ELSE "frame"
                      /\ cam_exit' = IF key = "q" THEN "quit" ELSE cam_exit
                      /\ released' = (key = "q")
                      /\ sound_enabled' = IF key = "s" THEN ~sound_enabled ELSE sound_enabled
                      /\ IF key = "s"
                         THEN IF sound_enabled THEN tts_engine' = "None"
                              ELSE tts_engine' \in Engines
                         ELSE tts_engine' = tts_engine
                      /\ confidence_threshold' =
                            IF key \in {"+", "="}
                            THEN Min(Conf(90), confidence_threshold + Conf(10))
                            ELSE IF key = "-"
                            THEN Max(Conf(10), confidence_threshold - Conf(10))
                            ELSE confidence_threshold
    /\ frames' = frames + 1
    /\ UNCHANGED <<program, toolVars, flaskVars, detVars, prodVars, cam_driver, clock, failed>>

\* ret is False: "Failed to grab frame", break, and the finally block
FrameGrabFails ==
    /\ program = "borlacam"
    /\ cam_driver = "run"
    /\ cam_pc = "frame"
    /\ cam_pc' = "done"
    /\ cam_exit' = "grab_failed"
    /\ released' = TRUE
    /\ UNCHANGED <<program, toolVars, flaskVars, detVars, prodVars, cam_driver, tts_engine,
                   sound_enabled, last_announcement, confidence_threshold, clock, spoken,
                   suppressed, frame_log, frames, running, failed, fps_counter, fps,
                   shown>>

\* Ctrl-C during a pass: "Interrupted by user", and the finally block
Interrupted ==
    /\ program = "borlacam"
    /\ cam_driver = "run"
    /\ cam_pc = "frame"
    /\ cam_pc' = "done"
    /\ cam_exit' = "KeyboardInterrupt"
    /\ released' = TRUE
    /\ UNCHANGED <<program, toolVars, flaskVars, detVars, prodVars, cam_driver, tts_engine,
                   sound_enabled, last_announcement, confidence_threshold, clock, spoken,
                   suppressed, frame_log, frames, running, failed, fps_counter, fps,
                   shown>>

NextCam ==
    \/ Tick
    \/ SpeechEnds
    \/ ProcessDetections
    \/ Returned
    \/ RunFrame
    \/ FrameGrabFails
    \/ Interrupted

SpecCam == InitCam /\ [][NextCam]_vars

InitFlask ==
    /\ program = "simple_flask_api"
    /\ ToolsIdle
    /\ CamIdle
    /\ DetIdle
    /\ ProdIdle
    /\ \/ flask_model = TRUE /\ flask_req \in GoodRequests
       \/ flask_model \in BOOLEAN /\ flask_req \in OddRequests
    /\ flask_pc = "received"
    /\ flask_resp = NoResponse
    /\ flask_log = NoStages
    /\ flask_ran = FALSE
    /\ flask_hist = <<>>

\* POST /api/predict is handled
FlaskPredict ==
    /\ program = "simple_flask_api"
    /\ flask_pc = "received"
    /\ flask_pc' = "answered"
    /\ LET out == FlaskHandle(flask_model, flask_req)
       IN  /\ flask_log' = out.log
           /\ flask_resp' = out.resp
           /\ flask_ran' = out.ran
    /\ UNCHANGED <<program, toolVars, flask_req, flask_model, flask_hist, camVars, detVars, prodVars>>

\* the next request arrives; sequences of requests are followed for the
\* requests of OddRequests
FlaskReceive ==
    /\ program = "simple_flask_api"
    /\ flask_pc = "answered"
    /\ Len(flask_hist) + 1 < MaxRequests
    /\ flask_req \in OddRequests
    /\ flask_req' \in OddRequests
    /\ flask_pc' = "received"
    /\ flask_hist' = Append(flask_hist, flask_resp.status)
    /\ flask_resp' = NoResponse
    /\ flask_log' = NoStages
    /\ flask_ran' = FALSE
    /\ UNCHANGED <<program, toolVars, flask_model, camVars, detVars, prodVars>>

NextFlask == FlaskPredict \/ FlaskReceive

SpecFlask == InitFlask /\ [][NextFlask]_vars

\* the detector after its constructor, on the configuration cfg, driven by
\* main() in camera or image mode or by direct calls
DetectorStarts(cfg) ==
    /\ program = "deploy_precision_model"
    /\ ToolsIdle
    /\ FlaskIdle
    /\ CamIdle
    /\ ProdIdle
    /\ config = cfg
    /\ thresholds = Construct(cfg)
    /\ stats = ZeroStats
    /\ det_call = NoCall
    /\ det_result = NoResult
    /\ calls = 0
    /\ det_driver \in {"calls", "camera", "image"}
    /\ feed_pc = "frame"
    /\ feed_exit = "none"
    /\ feed_shown = 0
    /\ feed_passed = NoResult

\* PrecisionWasteDetector(model_path): the default thresholds, zero statistics
InitDetector == DetectorStarts(NoConfig)

\* main() with --config: PrecisionWasteDetector(args.model, args.config) in
\* camera or image mode
InitConfig == \E cfg \in Configs : DetectorStarts(cfg) /\ det_driver # "calls"

\* a call of detect_with_precision_control on a frame
Detect ==
    /\ program = "deploy_precision_model"
    /\ det_driver = "calls"
    /\ calls < MaxCalls
    /\ \E boxes \in DetResults, return_confidence \in BOOLEAN :
          LET out == DetectWithPrecisionControl(thresholds, stats, boxes, return_confidence)
          IN  /\ det_call' = [boxes |-> boxes, return_confidence |-> return_confidence]
              /\ stats' = out.stats
              /\ det_result' = out.result
    /\ calls' = calls + 1
    /\ UNCHANGED <<program, toolVars, flaskVars, camVars, prodVars, thresholds, config, det_driver,
                   feed_pc, feed_exit, feed_shown, feed_passed>>

\* one pass of the loop of process_camera_feed on a frame that was read:
\* detect_with_precision_control(frame) is called with its default
\* return_confidence=True and what it returns goes to
\* draw_precision_results; an exception of either is not caught by "except
\* KeyboardInterrupt", so the finally block runs and the method ends with
\* it.  On a pass that draws, the frame is shown and 'q' ends the loop.
FeedFrame ==
    /\ program = "deploy_precision_model"
    /\ det_driver = "camera"
    /\ feed_pc = "frame"
    /\ calls < MaxCalls
    /\ \E boxes \in DetResults, quit \in BOOLEAN :
          LET out == DetectWithPrecisionControl(thresholds, stats, boxes, TRUE)
              drawn == DrawPrecisionResults(out.result)
          IN  /\ det_call' = [boxes |-> boxes, return_confidence |-> TRUE]
              /\ stats' = out.stats
              /\ det_result' = out.result
              /\ IF out.result.kind = "KeyError"
                 THEN /\ feed_passed' = NoResult
                      /\ feed_exit' = "KeyError"
                      /\ feed_pc' = "done"
                      /\ feed_shown' = feed_shown
                 ELSE IF drawn = "TypeError"
                 THEN /\ feed_passed' = out.result
                      /\ feed_exit' = "TypeError"
                      /\ feed_pc' = "done"
                      /\ feed_shown' = feed_shown
                 ELSE /\ feed_passed' = out.result
                      /\ feed_shown' = feed_shown + 1
                      /\ feed_exit' = IF quit THEN "quit" ELSE feed_exit
                      /\ feed_pc' = IF quit THEN "done" ELSE "frame"
    /\ calls' = calls + 1
    /\ UNCHANGED <<program, toolVars, flaskVars, camVars, prodVars, thresholds, config, det_driver>>

\* ret is False, or Ctrl-C: the loop of process_camera_feed ends
FeedEnds ==
    /\ program = "deploy_precision_model"
    /\ det_driver = "camera"
    /\ feed_pc = "frame"
    /\ feed_pc' = "done"
    /\ feed_exit' \in {"grab_failed", "KeyboardInterrupt"}
    /\ UNCHANGED <<program, toolVars, flaskVars, camVars, prodVars, thresholds, stats, det_call,
                   det_result, calls, config, det_driver, feed_shown, feed_passed>>

\* process_image(image_path) on an image that cv2.imread loads (loaded), or
\* on one it does not
ProcessImage ==
    /\ program = "deploy_precision_model"
    /\ det_driver = "image"
    /\ feed_pc = "frame"
    /\ feed_pc' = "done"
    /\ \E boxes \in DetResults, loaded \in BOOLEAN :
          IF ~loaded
          THEN /\ feed_exit' = "load_failed"
               /\ UNCHANGED <<stats, det_call, det_result, calls, feed_passed>>
          ELSE LET out == DetectWithPrecisionControl(thresholds, stats, boxes, TRUE)
                   drawn == DrawPrecisionResults(out.result)
               IN  /\ det_call' = [boxes |-> boxes, return_confidence |-> TRUE]
                   /\ stats' = out.stats
                   /\ det_result' = out.result
                   /\ calls' = calls + 1
                   /\ feed_passed' = IF out.result.kind = "KeyError" THEN NoResult
                                     ELSE out.result
                   /\ feed_exit' = IF out.result.kind = "KeyError" THEN "KeyError"
                                   ELSE IF drawn = "TypeError" THEN "TypeError"
                                   ELSE "returned"
    /\ UNCHANGED <<program, toolVars, flaskVars, camVars, prodVars, thresholds, config, det_driver,
                   feed_shown>>

NextDetector ==
    \/ Detect
    \/ FeedFrame
    \/ FeedEnds
    \/ ProcessImage

SpecDetector == InitDetector /\ [][NextDetector]_vars

\* main() in camera or image mode
NextConfig ==
    \/ FeedFrame
    \/ FeedEnds
    \/ ProcessImage

\* the detector constructed on every configuration
SpecConfig == InitConfig /\ [][NextConfig]_vars

\* a request with a decodable image reaches the loaded production server
InitProd ==
    /\ program = "production_api"
    /\ ToolsIdle
    /\ FlaskIdle
    /\ CamIdle
    /\ DetIdle
    /\ \/ prod_api = "loaded" /\ prod_req \in ProdGoodRequests
       \/ prod_api \in {"None", "loaded"} /\ prod_req \in ProdOddRequests
    /\ prod_pc = "received"
    /\ prod_resp = NoResponse
    /\ prod_log = <<>>
    /\ prod_ran = FALSE
    /\ prod_hist = <<>>
    /\ prod_get = NoGet

\* POST /api/predict of production_api is handled
ProdPredict ==
    /\ program = "production_api"
    /\ prod_pc = "received"
    /\ prod_pc' = "answered"
    /\ LET out == ProdHandle(prod_api, prod_req)
       IN  /\ prod_log' = out.log
           /\ prod_resp' = out.resp
           /\ prod_ran' = out.ran
    /\ UNCHANGED <<program, toolVars, flaskVars, camVars, detVars, prod_req, prod_api, prod_hist, prod_get>>

\* the next request arrives; sequences of requests are followed for the
\* requests of ProdOddRequests
ProdReceive ==
    /\ program = "production_api"
    /\ prod_pc = "answered"
    /\ Len(prod_hist) + 1 < MaxRequests
    /\ prod_req \in ProdOddRequests
    /\ prod_req' \in ProdOddRequests
    /\ prod_pc' = "received"
    /\ prod_hist' = Append(prod_hist, prod_resp.status)
    /\ prod_resp' = NoResponse
    /\ prod_log' = <<>>
    /\ prod_ran' = FALSE
    /\ UNCHANGED <<program, toolVars, flaskVars, camVars, detVars, prod_api, prod_get>>

\* GET /health
Health ==
    /\ program = "production_api"
    /\ \E gpu \in BOOLEAN : prod_get' = HealthCheck(prod_api, gpu, Len(prod_hist))
    /\ UNCHANGED <<program, toolVars, flaskVars, camVars, detVars, prod_req, prod_pc, prod_resp,
                   prod_log, prod_api, prod_ran, prod_hist>>

\* GET /api/status
Status ==
    /\ program = "production_api"
    /\ \E gpu \in BOOLEAN : prod_get' = ApiStatus(prod_api, gpu)
    /\ UNCHANGED <<program, toolVars, flaskVars, camVars, detVars, prod_req, prod_pc, prod_resp,
                   prod_log, prod_api, prod_ran, prod_hist>>

NextProd == ProdPredict \/ ProdReceive \/ Health \/ Status

SpecProd == InitProd /\ [][NextProd]_vars

\* the programs whose acceptance test C9 is about
\* BorlaCamMonitor(api_url) and run_continuous_monitoring
InitMonitor ==
    /\ program = "monitoring"
    /\ FlaskIdle
    /\ CamIdle
    /\ DetIdle
    /\ ProdIdle
    /\ DeployIdle
    /\ health_history = <<>>
    /\ performance_history = <<>>
    /\ mon_pc = "health"
    /\ mon_api \in {"up", "down"}
    /\ mon_psutil \in {"ok", "raises"}
    /\ mon_cycle = 0
    /\ mon_changes = 0

\* run_monitoring_cycle: health_data = self.check_health()
MonitorHealth ==
    /\ program = "monitoring"
    /\ mon_pc = "health"
    /\ mon_cycle < MaxCycles
    /\ health_history' = CheckHealth(health_history, mon_api)
    /\ mon_pc' = "performance"
    /\ UNCHANGED <<program, flaskVars, camVars, detVars, prodVars, deployVars,
                   performance_history, mon_api, mon_psutil, mon_cycle, mon_changes>>

\* run_monitoring_cycle: performance_data = self.check_performance(), and the
\* rest of the cycle, which reads the histories
MonitorPerformance ==
    /\ program = "monitoring"
    /\ mon_pc = "performance"
    /\ performance_history' = CheckPerformance(performance_history, mon_api, mon_psutil)
    /\ mon_pc' = "health"
    /\ mon_cycle' = mon_cycle + 1
    /\ UNCHANGED <<program, flaskVars, camVars, detVars, prodVars, deployVars,
                   health_history, mon_api, mon_psutil, mon_changes>>

\* during time.sleep(interval) the API goes down or comes back
ApiChanges ==
    /\ program = "monitoring"
    /\ mon_pc = "health"
    /\ mon_changes < MaxApiChanges
    /\ mon_api' = IF mon_api = "up" THEN "down" ELSE "up"
    /\ mon_changes' = mon_changes + 1
    /\ UNCHANGED <<program, flaskVars, camVars, detVars, prodVars, deployVars,
                   health_history, performance_history, mon_pc, mon_psutil, mon_cycle>>

NextMonitor ==
    \/ MonitorHealth
    \/ MonitorPerformance
    \/ ApiChanges

SpecMonitor == InitMonitor /\ [][NextMonitor]_vars

\* python deploy.py [type] [build_frontend] [restart_services] on a machine
InitDeploy ==
    /\ program = "deploy"
    /\ FlaskIdle
    /\ CamIdle
    /\ DetIdle
    /\ ProdIdle
    /\ MonIdle
    /\ deploy_env \in Machines
    /\ deploy_pc = 1
    /\ deploy_ran = <<>>
    /\ deploy_exit = -1
    /\ deploy_displayed = FALSE

\* one pass of "for step_name, step_function in steps": the step runs, and
\* "if not step_function()" exits with status 1 on False and on None alike;
\* after the last step display_final_status() runs when the services were
\* restarted, and main() returns
DeployStep ==
    /\ program = "deploy"
    /\ deploy_exit = -1
    /\ deploy_pc <= Len(Steps(deploy_env))
    /\ LET step == Steps(deploy_env)[deploy_pc]
       IN  /\ deploy_ran' = Append(deploy_ran, step)
           /\ IF StepReturns(step, deploy_env) # "True"
              THEN /\ deploy_pc' = deploy_pc
                   /\ deploy_exit' = 1
                   /\ deploy_displayed' = deploy_displayed
              ELSE /\ deploy_pc' = deploy_pc + 1
                   /\ IF deploy_pc = Len(Steps(deploy_env))
                      THEN /\ deploy_displayed' = deploy_env.restart_services_flag
                           /\ deploy_exit' = 0
                      ELSE /\ deploy_displayed' = deploy_displayed
                           /\ deploy_exit' = deploy_exit
    /\ UNCHANGED <<program, flaskVars, camVars, detVars, prodVars, monVars, deploy_env>>

NextDeploy == DeployStep

SpecDeploy == InitDeploy /\ [][NextDeploy]_vars

InitAccept == InitDetector \/ InitProd \/ InitCam
NextAccept == NextDetector \/ NextProd \/ NextCam
SpecAccept == InitAccept /\ [][NextAccept]_vars

\* the two servers
InitServers == InitFlask \/ InitProd
NextServers == NextFlask \/ NextProd
SpecServers == InitServers /\ [][NextServers]_vars

\* the two filters that take raw detections
InitFilters == InitFlask \/ InitDetector
NextFilters == NextFlask \/ NextDetector
SpecFilters == InitFilters /\ [][NextFilters]_vars

\* every entry point of the repository
Init == InitFlask \/ InitDetector \/ InitProd \/ InitCam \/ InitMonitor \/ InitDeploy
Next == NextFlask \/ NextDetector \/ NextProd \/ NextCam \/ NextMonitor \/ NextDeploy
Spec == Init /\ [][Next]_vars

(***************************************************************************)
(* Claims about simple_flask_api.predict                                   *)
(***************************************************************************)
\* a request was answered with predictions
Answered == program = "simple_flask_api" /\ flask_pc = "answered" /\ flask_resp.status = 200

LabelsOf(preds) == {preds[i].label : i \in 1..Len(preds)}
ScoresOf(preds, label) == {preds[i].score : i \in {j \in 1..Len(preds) : preds[j].label = label}}
IsMaxOf(x, S) == x \in S /\ \A y \in S : y <= x

\* C1: the returned predictions are no more numerous than the raw detections
\* nor than the accepted count reported as total_detections, and no two of
\* them carry the same label.
C1_NoMoreThanInputAndDistinct ==
    Answered =>
        LET out == flask_resp.predictions
        IN  /\ Len(out) <= Len(flask_req.boxes)
            /\ Len(out) <= flask_resp.total_detections
            /\ \A i, j \in 1..Len(out) : out[i].label = out[j].label => i = j

\* a frame of six detections of three classes answered with three predictions
C1_Witness ==
    /\ Answered
    /\ Len(flask_req.boxes) = 6
    /\ flask_resp.total_detections = 6
    /\ Len(flask_resp.predictions) = 3

\* C2: of the detections of one class that reach de-duplication exactly one
\* survives, and it has the maximal re-scored score of the class.
C2_DedupKeepsTheBest ==
    Answered =>
        \A l \in LabelsOf(flask_log.rescored) :
            LET left == {i \in 1..Len(flask_log.deduped) : flask_log.deduped[i].label = l}
            IN  /\ Cardinality(left) = 1
                /\ \A i \in left :
                       IsMaxOf(flask_log.deduped[i].score, ScoresOf(flask_log.rescored, l))

\* two detections of one class reach de-duplication, the later one with the
\* higher re-scored score, and two more with equal scores
C2_Witness ==
    /\ Answered
    /\ \E i, j \in 1..Len(flask_log.rescored) :
          /\ i < j
          /\ flask_log.rescored[i].label = flask_log.rescored[j].label
          /\ flask_log.rescored[i].score < flask_log.rescored[j].score
    /\ \E i, j \in 1..Len(flask_log.rescored) :
          /\ i < j
          /\ flask_log.rescored[i].label = flask_log.rescored[j].label
          /\ flask_log.rescored[i].score = flask_log.rescored[j].score

\* C3: the score of every re-scored detection is at least the detector
\* confidence and strictly below 1.0.
C3_RescoreNeverDecreasesAndBelowOne ==
    Answered =>
        \A i \in 1..Len(flask_log.rescored) :
            /\ flask_log.rescored[i].score >= flask_log.kept_raw[i].score
            /\ flask_log.rescored[i].score < One

\* C4: every class with a raw detection that passes the acceptance test, the
\* geometric checks and the final floor is in the result, with the highest
\* score of those detections.
C4_EveryPassingClassReturned ==
    Answered =>
        LET boxes == flask_req.boxes
            img == flask_req.img
            Rescored(d) == ClassBoost(CenterBoost(d, img))
            passing(l) ==
                {i \in 1..Len(boxes) :
                    /\ boxes[i].label = l
                    /\ boxes[i].score >= AcceptThreshold(flask_req.confidence)
                    /\ IsValidDetection(boxes[i], img)
                    /\ Rescored(boxes[i]).score >= Conf(20)}
        IN  \A l \in LabelsOf(boxes) :
                passing(l) # {} =>
                    \E k \in 1..Len(flask_resp.predictions) :
                        /\ flask_resp.predictions[k].label = l
                        /\ IsMaxOf(flask_resp.predictions[k].score,
                                   {Rescored(boxes[i]).score : i \in passing(l)})

Admissible(bbox, img) ==
    ~TooSmall(bbox, img) /\ ~TooLarge(bbox, img) /\ ~ExtremeAspect(bbox)

\* C10 as stated: an accepted detection of admissible area and aspect ratio
\* is dropped only when it is near the edge with a confidence below 0.25.
C10_DroppedOnlyNearEdge ==
    Answered =>
        \A i \in 1..Len(flask_log.top) :
            LET p == flask_log.top[i]
            IN  (Admissible(p.bbox, flask_req.img) /\ i \notin flask_log.kept)
                    => (IsNearEdge(p.bbox, flask_req.img) /\ p.score < Conf(25))

\* C10 amended: an accepted detection of admissible area and aspect ratio is
\* dropped only when it is near the edge with a confidence below 0.25, or
\* when its centre factor is below 0.2 with a confidence below 0.45; with a
\* confidence of at least 0.45 it is never dropped.
C10_DroppedOnlyNearEdgeOrFarFromCentre ==
    Answered =>
        \A i \in 1..Len(flask_log.top) :
            LET p == flask_log.top[i]
                img == flask_req.img
            IN  Admissible(p.bbox, img) =>
                    /\ i \notin flask_log.kept =>
                          \/ IsNearEdge(p.bbox, img) /\ p.score < Conf(25)
                          \/ CenterLow(p.bbox, img) /\ p.score < Conf(45)
                    /\ p.score >= Conf(45) => i \in flask_log.kept

\* an accepted detection near the edge with confidence 0.22 is dropped
C10_Witness ==
    /\ Answered
    /\ \E i \in 1..Len(flask_log.top) :
          /\ flask_log.top[i].bbox = EdgeBox
          /\ flask_log.top[i].score = Conf(22)
          /\ i \notin flask_log.kept

(***************************************************************************)
(* Claims about borlacam.BorlaCam                                          *)
(***************************************************************************)
\* the step is a call of process_detections, by a caller or by run()
ProcessStep == program = "borlacam" /\ cam_pc = "frame" /\ frames' = frames + 1

\* a speech thread for category c is started in this step
AnnouncedNow(c) == \E a \in spoken' \ spoken : a.item = c /\ a.at = clock

C6_GateStep ==
    (ProcessStep /\ tts_engine # "None") =>
        \A i \in 1..Len(frame_log'.items) :
            LET c == frame_log'.items[i]
            IN  AnnouncedNow(c) <=>
                    \A a \in spoken : a.item = c => clock - a.at >= announcement_cooldown

C6_Apart ==
    \A a, b \in spoken :
        (a.item = b.item /\ a.at < b.at) => b.at - a.at >= announcement_cooldown

\* C6: with audio available a category is announced exactly when it was never
\* announced before or its last announcement is at least the cooldown (3.0 s)
\* back; any two announcements of one category are at least the cooldown apart.
C6_AnnouncedExactlyOutsideCooldown == [][C6_GateStep]_vars /\ []C6_Apart

\* 'organic' announced at t0, turned away at t0 + 1.0, announced at t0 + 3.1
C6_Witness ==
    \E t \in 0..MaxClock :
        /\ \E a \in spoken : a.item = "organic" /\ a.at = t
        /\ "organic" \in DOMAIN suppressed
        /\ suppressed["organic"] = t + 10
        /\ \E a \in spoken : a.item = "organic" /\ a.at = t + 31

Entry(la, c) == IF c \in DOMAIN la THEN la[c] ELSE -1

\* C7: last_announcement changes only in a call that announces, and then only
\* the entry of the announced category, which becomes the current time; every
\* other entry, and every entry in any other step, stays as it was.
C7_TableChangesOnlyOnAnnouncement ==
    [][ \A c \in DOMAIN last_announcement \cup DOMAIN last_announcement' :
           Entry(last_announcement', c) # Entry(last_announcement, c) =>
               /\ ProcessStep
               /\ tts_engine # "None"
               /\ AnnouncedNow(c)
               /\ last_announcement'[c] = clock
               /\ c \in DOMAIN last_announcement =>
                      clock - last_announcement[c] >= announcement_cooldown ]_vars

\* a frame announces 'trash' while 'organic', requested in the same frame, is
\* turned away and keeps its entry
C7_Witness ==
    /\ program = "borlacam"
    /\ cam_pc = "key"
    /\ frame_log.tts = "engine"
    /\ Len(frame_log.items) = 2
    /\ "organic" \in DOMAIN suppressed
    /\ suppressed["organic"] = clock
    /\ \E a \in spoken : a.item = "trash" /\ a.at = clock
    /\ "organic" \in DOMAIN last_announcement
    /\ last_announcement["organic"] < clock
    /\ last_announcement["trash"] = clock

\* C8: process_detections requests an announcement only for the categories of
\* detections at or above the threshold, each at most once; a frame whose
\* detections are all below the threshold announces nothing and leaves the
\* cooldown table as it was.
C8_OnlyConfidentCategoriesRequested ==
    [][ ProcessStep =>
          LET log == frame_log'
              confident == {i \in 1..Len(log.boxes) :
                               log.boxes[i].confidence >= confidence_threshold}
          IN  /\ \A k \in 1..Len(log.items) :
                     \E i \in confident :
                         log.items[k] = map_to_waste_category(log.boxes[i].class_name)
              /\ \A j, k \in 1..Len(log.items) : log.items[j] = log.items[k] => j = k
              /\ \A a \in spoken' \ spoken :
                     \E k \in 1..Len(log.items) : log.items[k] = a.item
              /\ \A c \in DOMAIN suppressed' :
                     Entry(suppressed', c) # Entry(suppressed, c) =>
                         \E k \in 1..Len(log.items) : log.items[k] = c
              /\ confident = {} =>
                     /\ spoken' = spoken
                     /\ last_announcement' = last_announcement ]_vars

\* a frame with one detection below and one at the threshold, of different
\* categories, with audio available: only the second category is announced
C8_Witness ==
    /\ program = "borlacam"
    /\ cam_pc = "key"
    /\ frame_log.tts = "engine"
    /\ Len(frame_log.boxes) = 2
    /\ frame_log.boxes[1].confidence < frame_log.threshold
    /\ frame_log.boxes[2].confidence = frame_log.threshold
    /\ map_to_waste_category(frame_log.boxes[1].class_name)
           # map_to_waste_category(frame_log.boxes[2].class_name)
    /\ Len(frame_log.items) = 1
    /\ \E a \in spoken : a.item = frame_log.items[1] /\ a.at = frame_log.at
    /\ ~ \E a \in spoken : a.item = map_to_waste_category(frame_log.boxes[1].class_name)

(***************************************************************************)
(* Claims about the acceptance tests                                       *)
(***************************************************************************)
DetectorCalled == program = "deploy_precision_model" /\ calls > 0

\* C5: detect_with_precision_control never raises for a detection whose class
\* has no configured threshold: it judges the detection against global_conf
\* and returns a result for the frame.
C5_UnknownClassUsesGlobalFallback ==
    DetectorCalled =>
        /\ det_result.kind \in {"pair", "list"}
        /\ Len(det_result.detections) = Len(det_call.boxes)
        /\ \A i \in 1..Len(det_result.detections) :
               det_call.boxes[i].class_name \notin {"organic", "recyclable"} =>
                   (det_result.detections[i].status = "confident"
                        <=> det_call.boxes[i].confidence >= thresholds["global_conf"])

\* C9: the acceptance test is inclusive.  In detect_with_precision_control an
\* organic or recyclable detection at its class threshold is 'confident', one
\* below it is 'uncertain' with a reason naming confidence and threshold;
\* BorlaCamAPI.predict and process_detections accept a confidence equal to
\* their threshold (and nothing below it).
C9_AcceptanceInclusive ==
    /\ DetectorCalled =>
          \A i \in 1..Len(det_result.judged) :
              LET d == det_result.judged[i]
                  box == det_call.boxes[i]
              IN  /\ d.class = box.class_name /\ d.confidence = box.confidence
                  /\ box.class_name \in {"organic", "recyclable"} =>
                        /\ box.confidence >= thresholds[box.class_name]
                              => d.status = "confident"
                        /\ box.confidence < thresholds[box.class_name]
                              => /\ d.status = "uncertain"
                                 /\ d.reason = <<box.confidence, thresholds[box.class_name]>>
    /\ (program = "production_api" /\ prod_pc = "answered" /\ prod_resp.status = 200) =>
          LET threshold == Clamp(prod_req.confidence)
              at == {i \in 1..Len(prod_req.boxes) : prod_req.boxes[i].score = threshold}
              over == {i \in 1..Len(prod_req.boxes) : prod_req.boxes[i].score >= threshold}
          IN  /\ Len(prod_log) = Cardinality(over)
              /\ \A i \in at : \E k \in 1..Len(prod_log) : prod_log[k] = prod_req.boxes[i]
              /\ \A k \in 1..Len(prod_log) : prod_log[k].score >= threshold
              /\ Cardinality(over) <= TopK => prod_resp.predictions = SortDesc(prod_log)
    /\ (program = "borlacam" /\ cam_pc = "key") =>
          \A i \in 1..Len(frame_log.boxes) :
              frame_log.boxes[i].confidence = frame_log.threshold =>
                  \E k \in 1..Len(frame_log.items) :
                      frame_log.items[k] = map_to_waste_category(frame_log.boxes[i].class_name)

\* one call judges an organic detection at 0.40 'confident' and a recyclable
\* one at 0.69 'uncertain'
C9_Witness ==
    /\ DetectorCalled
    /\ det_result.kind = "pair"
    /\ Len(det_result.detections) = 2
    /\ det_result.detections[1].class = "organic"
    /\ det_result.detections[1].confidence = thresholds["organic"]
    /\ det_result.detections[1].status = "confident"
    /\ det_result.detections[2].class = "recyclable"
    /\ det_result.detections[2].confidence = Conf(69)
    /\ det_result.detections[2].status = "uncertain"
    /\ det_result.detections[2].reason = <<Conf(69), Conf(70)>>

(***************************************************************************)
(* Claims about the responses of the two servers                           *)
(***************************************************************************)
\* production_api answered a request with predictions
ProdAnswered ==
    program = "production_api" /\ prod_pc = "answered" /\ prod_resp.status = 200

NonIncreasing(preds) ==
    \A i, j \in 1..Len(preds) : i < j => preds[i].score >= preds[j].score

\* C11: the predictions either server returns are in non-increasing order of
\* their final confidence and number at most 5.
C11_OrderedAndAtMostFive ==
    /\ Answered =>
          /\ Len(flask_resp.predictions) <= 5
          /\ NonIncreasing(flask_resp.predictions)
    /\ ProdAnswered =>
          /\ Len(prod_resp.predictions) <= 5
          /\ NonIncreasing(prod_resp.predictions)

\* production_api accepted six detections that arrived in ascending order of
\* confidence and returned five
C11_Witness ==
    /\ ProdAnswered
    /\ Len(prod_log) = 6
    /\ prod_log[1].score < prod_log[6].score
    /\ Len(prod_resp.predictions) = 5
    /\ prod_resp.predictions[1].score > prod_resp.predictions[5].score

(***************************************************************************)
(* Claims about empty input                                                *)
(***************************************************************************)
\* C12: with zero raw detections simple_flask_api answers success with an
\* empty predictions list, and detect_with_precision_control returns a
\* detection sequence of length 0 (the list itself when return_confidence is
\* false, the first of the two lists when it is true) without raising.
C12_EmptyInputGivesEmptySequence ==
    /\ (/\ program = "simple_flask_api"
        /\ flask_pc = "answered"
        /\ flask_ran
        /\ flask_req.infer = "ok"
        /\ flask_req.boxes = <<>>) =>
          /\ flask_resp.status = 200
          /\ flask_resp.success
          /\ flask_resp.predictions = <<>>
    /\ (DetectorCalled /\ det_call.boxes = <<>>) =>
          /\ det_result.kind = (IF det_call.return_confidence THEN "pair" ELSE "list")
          /\ det_result.detections = <<>>

(***************************************************************************)
(* Claims about map_to_waste_category                                      *)
(***************************************************************************)
\* the category the table of the specification gives a label
TableCategory(label) ==
    IF label \in DOMAIN WasteMapping THEN WasteMapping[label] ELSE "trash"

\* C13: in every frame, whatever frames came before, the categories found
\* for the confident boxes are exactly the table categories of their labels,
\* 'trash' for a label the table does not list; no call raises.
C13_MappingTotalAndRepeatable ==
    (program = "borlacam" /\ cam_pc = "key") =>
        LET confident == {i \in 1..Len(frame_log.boxes) :
                             frame_log.boxes[i].confidence >= frame_log.threshold}
        IN  /\ \A i \in confident :
                   \E k \in 1..Len(frame_log.items) :
                       frame_log.items[k] = TableCategory(frame_log.boxes[i].class_name)
            /\ \A k \in 1..Len(frame_log.items) :
                   \E i \in confident :
                       frame_log.items[k] = TableCategory(frame_log.boxes[i].class_name)
            /\ \A k \in 1..Len(frame_log.items) :
                   frame_log.items[k] \in {"plastic", "organic", "paper", "metal", "trash"}

\* the unlisted label 'person' was mapped to 'trash' in an earlier frame, the
\* listed label 'banana' to 'organic' after it, and 'person' to 'trash'
\* again in this frame
C13_Witness ==
    /\ program = "borlacam"
    /\ cam_pc = "key"
    /\ \E i \in 1..Len(frame_log.boxes) : frame_log.boxes[i].class_name = "person"
    /\ \E a, b, c \in spoken :
          /\ a.item = "trash" /\ b.item = "organic" /\ c.item = "trash"
          /\ a.at < b.at /\ b.at < c.at /\ c.at = frame_log.at

(***************************************************************************)
(* Claims about the geometric checks and the re-scoring                    *)
(***************************************************************************)
Area(bbox) == (bbox.x2 - bbox.x1) * (bbox.y2 - bbox.y1)

\* the relative area is at least 0.01 and at most 0.99
AreaAdmissible(bbox, img) ==
    /\ 100 * Area(bbox) >= img.w * img.h
    /\ 100 * Area(bbox) <= 99 * (img.w * img.h)

\* the aspect ratio is within [0.1, 10], or the height is zero
AspectAdmissible(bbox) ==
    (bbox.y2 - bbox.y1 > 0) =>
        /\ bbox.x2 - bbox.x1 <= 10 * (bbox.y2 - bbox.y1)
        /\ 10 * (bbox.x2 - bbox.x1) >= bbox.y2 - bbox.y1

\* C14: a detection whose relative area is below 0.01 or above 0.99 is
\* rejected, and one whose relative area is within [0.01, 0.99], the two
\* boundaries included, passes the size check: with an admissible aspect
\* ratio and a confidence of at least 0.45 it is kept.  No request with a
\* decodable image is answered with an error.
C14_AreaBoundariesInclusive ==
    (/\ program = "simple_flask_api"
     /\ flask_pc = "answered"
     /\ flask_ran
     /\ flask_req.infer = "ok") =>
        /\ flask_resp.status = 200
        /\ \A i \in 1..Len(flask_log.top) :
               LET p == flask_log.top[i]
               IN  /\ i \in flask_log.kept => AreaAdmissible(p.bbox, flask_req.img)
                   /\ (/\ AreaAdmissible(p.bbox, flask_req.img)
                       /\ AspectAdmissible(p.bbox)
                       /\ p.score >= Conf(45)) => i \in flask_log.kept

\* a detection of relative area exactly 0.01 is returned
C14_Witness ==
    /\ Answered
    /\ Len(flask_req.boxes) = 1
    /\ 100 * Area(flask_req.boxes[1].bbox) = flask_req.img.w * flask_req.img.h
    /\ Len(flask_resp.predictions) = 1

\* the re-scored score of a detection of this label, confidence (in
\* hundredths) and box: the centre boost, then the class boosts
RescoredScore(label, c, bbox, img) == ClassBoost(CenterBoost(Det(label, c, bbox), img)).score

\* C15: a re-scored detection ends no lower than any detection of the same
\* category and box with a lower detector confidence would, and no higher
\* than any with a higher confidence would, over the confidences 0.00, 0.01,
\* ..., 1.00.  Checked on the frames of one detection, which range over every
\* category, confidence and box.
C15_RescoreMonotonic ==
    (Answered /\ Len(flask_req.boxes) = 1) =>
        \A i \in 1..Len(flask_log.rescored) :
            LET raw == flask_log.kept_raw[i]
                end == flask_log.rescored[i].score
            IN  \A c \in 0..100 :
                    /\ Conf(c) <= raw.score =>
                           RescoredScore(raw.label, c, raw.bbox, flask_req.img) <= end
                    /\ Conf(c) >= raw.score =>
                           RescoredScore(raw.label, c, raw.bbox, flask_req.img) >= end

\* a centred organic detection of confidence 0.41 is boosted across the tier
\* boundary 0.45, and one of confidence 0.99 ends at a cap
C15_Witness ==
    /\ Answered
    /\ Len(flask_log.rescored) = 1
    /\ flask_log.kept_raw[1].label = "organic"
    /\ flask_log.kept_raw[1].score = Conf(41)
    /\ flask_log.rescored[1].score > Conf(45)
    /\ RescoredScore("organic", 99, flask_log.kept_raw[1].bbox, flask_req.img) = Conf(98)

\* C16: for the centred bottle (recyclable, 0.42, 5% of the frame) and the
\* centred banana (organic, 0.30, 50% of the frame), in either order, a
\* request whose confidence lets both pass is answered with exactly two
\* predictions: the recyclable one first, with a score above 0.42, then the
\* organic one.
C16_BottleAndBanana ==
    (/\ Answered
     /\ flask_req.boxes \in { <<BottleDet, BananaDet>>, <<BananaDet, BottleDet>> }
     /\ flask_req.confidence <= Conf(30)) =>
        LET out == flask_resp.predictions
        IN  /\ Len(out) = 2
            /\ out[1].label = "recyclable"
            /\ out[1].score > Conf(42)
            /\ out[2].label = "organic"
            /\ out[2].score >= Conf(30)
            /\ out[1].score >= out[2].score

\* the banana arrives first and the bottle is returned first, at 0.5313
C16_Witness ==
    /\ Answered
    /\ flask_req.boxes = <<BananaDet, BottleDet>>
    /\ flask_req.confidence = Conf(25)
    /\ Len(flask_resp.predictions) = 2
    /\ flask_resp.predictions[1].score = 531300
    /\ flask_resp.predictions[2].score = 356400

(***************************************************************************)
(* Claims about the error responses of the two servers                     *)
(***************************************************************************)
\* C17: on a server whose model is loaded a request without an image, or
\* with an image that is no valid base64 or decodes to no image, is answered
\* 400 with an error string and without running inference; a request with a
\* decodable image is answered 200 whatever requests came before it.
C17_MalformedImageIsBadRequest ==
    /\ (program = "simple_flask_api" /\ flask_pc = "answered" /\ flask_model) =>
          /\ flask_req.image # "image" =>
                /\ flask_resp.status = 400
                /\ "error" \in DOMAIN flask_resp
                /\ ~flask_ran
          /\ (flask_req.image = "image" /\ flask_req.infer = "ok") =>
                flask_resp.status = 200
    /\ (program = "production_api" /\ prod_pc = "answered" /\ prod_api = "loaded") =>
          /\ prod_req.image # "image" =>
                /\ prod_resp.status = 400
                /\ "error" \in DOMAIN prod_resp
                /\ ~prod_ran
          /\ (prod_req.image = "image" /\ prod_req.numeric /\ prod_req.infer = "ok") =>
                prod_resp.status = 200

\* C18: GET /api/status on a ready server is answered 200 with a body that
\* holds the keys 'model_loaded', 'device' and 'classes'.
C18_StatusKeys ==
    (/\ program = "production_api"
     /\ prod_get.route = "/api/status"
     /\ prod_api = "loaded") =>
        /\ prod_get.status = 200
        /\ {"model_loaded", "device", "classes"} \subseteq DOMAIN prod_get.json

\* C19: GET /health is answered 200 and 'healthy' exactly when the api object
\* exists with its model loaded, and otherwise 503 and 'unhealthy';
\* model_loaded is true exactly when the status is 'healthy', and the body
\* holds status, model_loaded and timestamp.
C19_HealthReflectsModel ==
    (program = "production_api" /\ prod_get.route = "/health") =>
        LET body == prod_get.json
        IN  /\ {"status", "model_loaded", "timestamp"} \subseteq DOMAIN body
            /\ prod_api = "loaded" => prod_get.status = 200 /\ body.status = "healthy"
            /\ prod_api # "loaded" => prod_get.status = 503 /\ body.status = "unhealthy"
            /\ body.model_loaded <=> body.status = "healthy"

\* a server without model answered a predict request 503 and then /health
\* 503 'unhealthy'
C19_Witness ==
    /\ program = "production_api"
    /\ prod_pc = "answered"
    /\ prod_resp.status = 503
    /\ prod_get.route = "/health"
    /\ prod_get.status = 503
    /\ prod_get.json.status = "unhealthy"
    /\ ~prod_get.json.model_loaded

\* C20: without a model every predict request of either server is answered
\* 503 with an error and no predictions, and a request whose inference
\* raises is answered with an error and no predictions.
C20_NoModelIsServiceUnavailable ==
    /\ (program = "simple_flask_api" /\ flask_pc = "answered") =>
          /\ ~flask_model =>
                /\ flask_resp.status = 503
                /\ "error" \in DOMAIN flask_resp
                /\ "predictions" \notin DOMAIN flask_resp
          /\ (flask_ran /\ flask_req.infer = "raises") =>
                /\ flask_resp.status >= 500
                /\ "error" \in DOMAIN flask_resp
                /\ "predictions" \notin DOMAIN flask_resp
    /\ (program = "production_api" /\ prod_pc = "answered") =>
          /\ prod_api # "loaded" =>
                /\ prod_resp.status = 503
                /\ "error" \in DOMAIN prod_resp
                /\ "predictions" \notin DOMAIN prod_resp
          /\ (prod_ran /\ prod_req.infer = "raises") =>
                /\ prod_resp.status >= 500
                /\ "error" \in DOMAIN prod_resp
                /\ "predictions" \notin DOMAIN prod_resp


(***************************************************************************)
(* Claims about the speech threads and the loop of BorlaCam.run            *)
(***************************************************************************)
\* the step is a call of process_detections made directly by a caller
CallStep == ProcessStep /\ cam_driver = "calls"

\* C21: an audio failure never interrupts a frame.  Whatever the engine
\* reference is (None after a failed setup_tts, or an engine that raises
\* while speaking), a call of process_detections returns the frame, no
\* exception of announce_detection ends run(), and a speech thread whose
\* engine call raises changes nothing of the caller.
C21_AudioFailureNeverInterrupts ==
    /\ [][CallStep => cam_pc' = "key"]_vars
    /\ [](cam_pc # "error" /\ cam_exit # "Exception")
    /\ [][failed' # failed => UNCHANGED <<cam_pc, cam_exit, frames, frame_log>>]_vars

\* the speech thread of an earlier frame raised in the engine, and a later
\* frame with a confident detection was processed and returned with that
\* broken engine
C21_Witness ==
    /\ program = "borlacam"
    /\ cam_driver = "calls"
    /\ cam_pc = "key"
    /\ frame_log.tts = "broken"
    /\ frame_log.items # <<>>
    /\ \E t \in failed : t.at < frame_log.at

C24_EveryCapturedFrameDisplayed ==
    (program = "borlacam" /\ cam_driver = "run") =>
        /\ shown = frames
        /\ cam_exit \in {"none", "quit", "grab_failed", "KeyboardInterrupt"}

\* C26: at most one speech task uses the shared engine at a time, and no
\* speech task is in flight on an engine reference that is None.
C26_OneSpeechTaskAtATime ==
    program = "borlacam" =>
        /\ Cardinality(running) <= 1
        /\ running # {} => tts_engine # "None"

\* C30: the threshold stays within [0.1, 0.9]; in a pass of the loop of run()
\* '+' or '=' raises it by 0.1 up to 0.9, '-' lowers it by 0.1 down to 0.1,
\* and any other key leaves it as it was.
C30_KeysMoveThresholdWithinRange ==
    /\ [](confidence_threshold >= Conf(10) /\ confidence_threshold <= Conf(90))
    /\ [][ (ProcessStep /\ cam_driver = "run") =>
              LET key == frame_log'.key
              IN  confidence_threshold' =
                      IF key \in {"+", "="}
                      THEN Min(Conf(90), confidence_threshold + Conf(10))
                      ELSE IF key = "-"
                      THEN Max(Conf(10), confidence_threshold - Conf(10))
                      ELSE confidence_threshold ]_vars

(***************************************************************************)
(* Claims about the statistics of PrecisionWasteDetector                   *)
(***************************************************************************)
\* C29: after every call of detect_with_precision_control, a call that raises
\* included, total_detections is the sum of the organic, recyclable and
\* uncertain counters, and a call with no detections leaves the counters as
\* they were.
C29_TotalIsSumOfCounters ==
    /\ [](program = "deploy_precision_model" =>
             stats.total_detections =
                 stats.organic_detections + stats.recyclable_detections
                     + stats.uncertain_detections)
    /\ [][(program = "deploy_precision_model" /\ calls' = calls + 1
                /\ det_call'.boxes = <<>>) => stats' = stats]_vars

(***************************************************************************)
(* Claims about the configuration and the drivers of PrecisionWasteDetector *)
(***************************************************************************)
\* the keys supplied under 'thresholds' of the configuration
SuppliedKeys == { p[1] : p \in config.th.supplied }

C25_DrawnWhatWasDetected ==
    (program = "deploy_precision_model" /\ det_driver \in {"camera", "image"}) =>
        /\ feed_exit # "TypeError"
        /\ (calls > 0 /\ det_result.kind # "KeyError") =>
              /\ feed_passed.kind = "list"
              /\ feed_passed.detections = det_result.detections
        /\ det_driver = "camera" /\ det_result.kind # "KeyError" => feed_shown = calls

(***************************************************************************)
(* Claims about monitoring and deploy                                      *)
(***************************************************************************)
\* the entries are consecutive: none but the oldest were dropped
Consecutive(history) ==
    \A i \in 1..(Len(history) - 1) : history[i + 1] = history[i] + 1

\* C27: after any sequence of check_health and check_performance calls,
\* whether the API answers or the request fails, each history holds at most
\* 100 entries, and they are the most recent ones.
C27_HistoriesHoldLastHundred ==
    program = "monitoring" =>
        /\ Len(health_history) <= HistoryCap
        /\ Len(performance_history) <= HistoryCap
        /\ Consecutive(health_history)
        /\ Consecutive(performance_history)

\* the work of every step of the deployment succeeds
AllWorkSucceeds ==
    \A i \in 1..Len(Steps(deploy_env)) : WorkSucceeds(Steps(deploy_env)[i], deploy_env)

\* C28: main() runs its steps in the listed order, exits with status 1 at the
\* first step whose work fails and runs no later step; when the work of every
\* step succeeds, all steps run and the final status is displayed.
C28_StepsInOrderUntilFirstFailure ==
    program = "deploy" =>
        /\ Len(deploy_ran) <= Len(Steps(deploy_env))
        /\ \A i \in 1..Len(deploy_ran) : deploy_ran[i] = Steps(deploy_env)[i]
        /\ \A i \in 1..(Len(deploy_ran) - 1) : WorkSucceeds(deploy_ran[i], deploy_env)
        /\ deploy_exit = 1 =>
              ~WorkSucceeds(deploy_ran[Len(deploy_ran)], deploy_env)
        /\ (AllWorkSucceeds /\ deploy_exit # -1) =>
              /\ deploy_ran = Steps(deploy_env)
              /\ deploy_exit = 0
              /\ deploy_env.restart_services_flag => deploy_displayed

====
